---- MODULE Spec2Model ----
(***************************************************************************)
(* Asynchronous task orchestration of the FTW inference API: the in-memory *)
(* task queue, its ledger (active_tasks) and its cooperative worker pool   *)
(* (src/server/app/core/queue.py), with the task-details lookup of         *)
(* src/server/app/services/task_service.py.                                *)
(*                                                                         *)
(* The event loop is single-threaded and cooperative: code between two     *)
(* awaits that really suspend runs atomically, so each action below is one *)
(* such stretch of code.  Wall-clock time (pendulum.now) is the variable   *)
(* now, which only moves forward.                                          *)
(***************************************************************************)
EXTENDS Integers, Sequences, FiniteSets, Bags, TLC

\* ---------------------------------------------------------------- bounds
MaxTasks == 2          \* number of submit() calls explored
MaxTime == 1           \* last instant of the clock

\* ------------------------------------------------------ program constants
PENDING == "pending"
RUNNING == "running"
COMPLETED == "completed"
FAILED == "failed"
TaskStatus == {PENDING, RUNNING, COMPLETED, FAILED}

INFERENCE == "inference"
POLYGONIZE == "polygonize"
TaskType == {INFERENCE, POLYGONIZE}

HTTP_404_NOT_FOUND == 404
HTTP_200_OK == 200

\* Python None: for the string-valued fields and for the timestamps
None == "None"
NoTime == -1
NoStamp == <<>>

\* ids a caller may present: the uuids submit can issue, and one that is never issued
TaskIds == 1 .. MaxTasks
UnknownId == 0
CallerIds == TaskIds \cup {UnknownId}

Projects == {"P1"}
\* what a handler can return, and the messages of the exceptions it can raise
HandlerResults == {"result"}
HandlerErrors == {"Processing failed"}
\* the processors the queue is constructed with: one for inference and none for
\* polygonize, so that a dequeued task meets both outcomes of the processor lookup
ProcessorConfigs == {{INFERENCE}}
\* the pool sizes the queue is constructed with (max_workers)
PoolSizes == {1, 2}

VARIABLES
    queue,            \* asyncio.Queue of task_data dicts (FIFO)
    workers,          \* self.workers: the worker tasks, as a bag of worker states
    max_workers,      \* self.max_workers
    active_tasks,     \* the ledger: task id -> entry
    shutdown_event,   \* asyncio.Event
    task_processors,  \* task types that have a registered processor
    now,              \* the wall clock
    next_uuid,        \* the next id uuid4 will produce
    invocations,      \* task id -> number of times its processor was invoked
    cancelled,        \* ids for which cancel() has returned True
    abandoned         \* id -> ledger entry as it was when stop_workers() was called
                      \*       while the task was RUNNING

vars == <<queue, workers, max_workers, active_tasks, shutdown_event, task_processors,
          now, next_uuid, invocations, cancelled, abandoned>>

Init ==
    /\ queue = <<>>
    /\ workers = EmptyBag
    /\ max_workers \in PoolSizes
    /\ active_tasks = <<>>
    /\ shutdown_event = FALSE
    /\ task_processors \in ProcessorConfigs
    /\ now = 0
    /\ next_uuid = 1
    /\ invocations = <<>>
    /\ cancelled = {}
    /\ abandoned = <<>>

\* ------------------------------------------------ the state behind the processors
\* process_task (src/server/app/core/task_processors.py) is the processor the
\* application registers for both task types; it works on the project table through
\* ProjectService (src/server/app/services/project_service.py)
VARIABLES
    projects,           \* project id -> [status, results]: the Project rows
    inference_results,  \* the InferenceResult rows saved, in order
    completions         \* the calls of record_task_completion made, in order

dispatch_vars == <<projects, inference_results, completions>>

CREATED == "created"
\* the project rows before any task ran: status default CREATED, results {}
NoProjectActivity ==
    /\ projects = [p \in Projects |-> [status |-> CREATED, results |-> <<>>]]
    /\ inference_results = <<>>
    /\ completions = <<>>

\* ------------------------------------------------------------------ storage
\* The storage backends of src/server/app/core/storage.py: LocalStorage over a
\* directory tree and SourceCoopStorage over an S3-compatible object store.
\*
\* A str is the sequence of its characters, so that f-strings, removeprefix and the
\* prefix match of S3 listings are computed on characters.
slash == <<"/">>
startswith(s, prefix) ==
    Len(prefix) <= Len(s) /\ SubSeq(s, 1, Len(prefix)) = prefix
removeprefix(s, prefix) ==
    IF startswith(s, prefix) THEN SubSeq(s, Len(prefix) + 1, Len(s)) ELSE s

\* the logical keys the callers use: a file directly under p, one two levels under p,
\* and one whose first segment spells the repository path
Keys == {<<"p", "/", "x">>, <<"p", "/", "u", "/", "x">>, <<"r", "/", "x">>}
\* Path(key).parent and its parents, as strings; "" is the storage root
parent(path) ==
    LET cuts == {n \in 1 .. Len(path) : path[n] = "/"}
    IN IF cuts = {} THEN <<>>
       ELSE SubSeq(path, 1, (CHOOSE n \in cuts : \A m \in cuts : m <= n) - 1)
parents(path) ==
    {SubSeq(path, 1, n - 1) : n \in {m \in 1 .. Len(path) : path[m] = "/"}} \cup {<<>>}
\* the prefixes the callers list: every directory above a key, and the keys themselves
ListPrefixes == UNION {parents(k) : k \in Keys} \cup Keys
\* the contents of the local files a caller uploads
Bytes == {"b1", "b2"}

Operations == {"upload", "download", "get_url", "delete", "list_files", "file_exists"}
Args(op) == IF op = "list_files" THEN ListPrefixes ELSE Keys
Bodies(op) == IF op = "upload" THEN Bytes ELSE {None}

\* the storage section of the settings (StorageConfig with its SourceCoopConfig):
\* the backend, the credential mode, and a repository path that is set or empty
StaticKeys == {None, "AKIA"}
StorageConfigs ==
    {cfg \in [backend : {"local", "source_coop"},
              use_sts_workaround : BOOLEAN,
              use_secrets_manager : BOOLEAN,
              access_key_id : StaticKeys,
              repository_path : {<<>>, <<"r">>},
              bucket_name : {"ftw"},
              endpoint_url : {"https://data.source.coop"},
              sts_real_bucket : {"us-west-2.opendata.source.coop"},
              sts_bucket_prefix : {<<"f">>}] :
        \* one configuration per credential mode; the unused switches at their default
        /\ cfg.backend = "local"
              => /\ ~cfg.use_sts_workaround /\ ~cfg.use_secrets_manager
                 /\ cfg.access_key_id = None /\ cfg.repository_path = <<>>
        /\ cfg.use_sts_workaround
              => ~cfg.use_secrets_manager /\ cfg.access_key_id = None
        /\ cfg.use_secrets_manager => cfg.access_key_id = None}

VARIABLES
    config,        \* the StorageConfig the backend was constructed with
    initialized,   \* SourceCoopStorage._initialized
    credentials,   \* SourceCoopStorage._access_key_id / _secret_access_key
    s3,            \* the object store: <<bucket, key>> -> bytes
    fs,            \* the tree under LocalStorage.base_dir: [files, dirs]
    pc,            \* caller -> where its storage operation stands
    uploaded,      \* logical key -> the bytes of its last upload that returned,
                   \*                while no delete of it has returned since
    resolutions    \* how many times credentials were resolved, counted to MaxCounted

storage_vars == <<config, initialized, credentials, s3, fs, pc, uploaded, resolutions>>

\* the coroutines that use the one backend instance
Callers == {"w1", "w2"}
Idle == [stage |-> "idle"]
\* the bare tree LocalStorage.__init__ makes: base_dir exists and is empty
EmptyTree == [files |-> <<>>, dirs |-> {<<>>}]

\* SourceCoopStorage.__init__ / LocalStorage.__init__: nothing resolved, nothing stored
Constructed(cfg) ==
    /\ config = cfg
    /\ initialized = FALSE
    /\ credentials = None
    /\ s3 = <<>>
    /\ fs = EmptyTree
    /\ pc = [c \in Callers |-> Idle]
    /\ uploaded = <<>>
    /\ resolutions = 0

\* get_storage with the default settings (backend "local"), and no storage call made
DefaultStorage ==
    Constructed(CHOOSE cfg \in StorageConfigs : cfg.backend = "local")

Remove(f, k) == [x \in DOMAIN f \ {k} |-> f[x]]

\* ------------------------------------------------------------ the task manager
\* TaskManager (src/server/app/core/task_manager.py), the queue-and-ledger class
\* behind app/api/endpoints.py; its timestamps are loop.time() readings
VARIABLES
    tm_queue,           \* self.queue
    tm_workers,         \* self.workers, as a bag of worker states
    tm_active_tasks,    \* self.active_tasks: task id -> entry
    tm_shutdown_event,  \* self.shutdown_event
    tm_time,            \* the last reading of asyncio.get_event_loop().time()
    tm_next_uuid        \* the next id uuid4 will produce

manager_vars == <<tm_queue, tm_workers, tm_active_tasks, tm_shutdown_event, tm_time,
                  tm_next_uuid>>

\* TaskManager(): nothing submitted, no worker started
NewTaskManager ==
    /\ tm_queue = <<>>
    /\ tm_workers = EmptyBag
    /\ tm_active_tasks = <<>>
    /\ tm_shutdown_event = FALSE
    /\ tm_time = 0
    /\ tm_next_uuid = 1

\* ------------------------------------------------------------ the whole state
\* what the queue, the processors, the storage and the task manager each leave alone
beyond_queue == <<dispatch_vars, storage_vars, manager_vars>>
beyond_dispatch == <<storage_vars, manager_vars>>
beyond_storage == <<vars, dispatch_vars, manager_vars>>
beyond_manager == <<vars, dispatch_vars, storage_vars>>
all_vars == <<vars, dispatch_vars, storage_vars, manager_vars>>

\* pendulum.now("UTC"): the clock read by an action is any instant from the last instant
\* read onwards; now is the last instant read
Clock == now .. MaxTime

\* DateTime.isoformat(): the ISO 8601 string of an instant, here the instant boxed in a
\* one-element sequence; None in a field that holds such a string is NoStamp
isoformat(t) == <<t>>

\* as uuid4, but an id generator that repeats itself: the second call returns the id of
\* the first
uuid4_repeats == IF next_uuid > 1 THEN next_uuid - 1 ELSE next_uuid

\* uuid.uuid4(): an id never produced before
uuid4 == next_uuid

NewEntry(task_type, project_id, created_at) ==
    [status |-> PENDING, task_type |-> task_type, project_id |-> project_id,
     created_at |-> created_at, updated_at |-> created_at,
     started_at |-> NoStamp, completed_at |-> NoStamp,
     error |-> None, result |-> None]

Put(f, k, v) == [x \in DOMAIN f \cup {k} |-> IF x = k THEN v ELSE f[x]]

\* submit(task_type, payload), payload = {"project_id": ...}; t is pendulum.now()
submit(task_type, project_id, t) ==
    /\ next_uuid <= MaxTasks
    /\ next_uuid' = next_uuid + 1
    /\ now' = t
    /\ LET task_id == uuid4
           task_data == [id |-> task_id, task_type |-> task_type,
                         project_id |-> project_id]
       IN /\ active_tasks' = Put(active_tasks, task_id,
                                 NewEntry(task_type, project_id, isoformat(t)))
          /\ queue' = Append(queue, task_data)
          /\ invocations' = Put(invocations, task_id, 0)
    /\ UNCHANGED <<workers, max_workers, shutdown_event, task_processors, cancelled,
                   abandoned>>

\* TaskInfo built by get_status: the stored entry, field by field.  Timestamps are
\* stored as ISO strings and parsed back; an unset one (None, falsy) stays None.
fromisoformat(date_string) == date_string[1]
TaskInfo(task_id) ==
    LET task_data == active_tasks[task_id]
    IN [task_id |-> task_id,
        status |-> task_data.status,
        task_type |-> task_data.task_type,
        created_at |-> fromisoformat(task_data.created_at),
        updated_at |-> fromisoformat(task_data.updated_at),
        started_at |-> IF task_data.started_at # NoStamp
                       THEN fromisoformat(task_data.started_at) ELSE NoTime,
        completed_at |-> IF task_data.completed_at # NoStamp
                         THEN fromisoformat(task_data.completed_at) ELSE NoTime,
        result |-> task_data.result,
        error |-> task_data.error]

\* as get_status, but answering an unknown id with a default PENDING record (what
\* TaskManager.get_task_status does) instead of raising
get_status_default(task_id) ==
    IF task_id \notin DOMAIN active_tasks
    THEN [raised |-> None,
          info |-> [task_id |-> task_id, status |-> PENDING, task_type |-> None,
                    created_at |-> NoTime, updated_at |-> NoTime,
                    started_at |-> NoTime, completed_at |-> NoTime,
                    result |-> None, error |-> None]]
    ELSE [raised |-> None, info |-> TaskInfo(task_id)]

\* get_status: raises ValueError for an id that is not in the ledger
get_status(task_id) ==
    IF task_id \notin DOMAIN active_tasks
    THEN [raised |-> "ValueError"]
    ELSE [raised |-> None, info |-> TaskInfo(task_id)]

_format_task_details(task_info, task_id, project_id) ==
    [task_id |-> task_id, project_id |-> project_id,
     task_type |-> task_info.task_type, status |-> task_info.status,
     created_at |-> isoformat(task_info.created_at),
     started_at |-> IF task_info.started_at # NoTime
                    THEN isoformat(task_info.started_at) ELSE NoStamp,
     completed_at |-> IF task_info.completed_at # NoTime
                      THEN isoformat(task_info.completed_at) ELSE NoStamp,
     error |-> task_info.error, result |-> task_info.result]

\* what TaskService.get_task_details answers: the ValueError of get_status becomes an
\* HTTP 404, a TaskInfo becomes the formatted body
get_task_details_response(project_id, task_id) ==
    LET r == get_status(task_id)
    IN IF r.raised = "ValueError"
       THEN [status_code |-> HTTP_404_NOT_FOUND]
       ELSE [status_code |-> HTTP_200_OK,
             body |-> _format_task_details(r.info, task_id, project_id)]

\* TaskService.get_task_details: reads the ledger and answers
get_task_details(project_id, task_id) ==
    /\ UNCHANGED vars
    /\ get_task_details_response(project_id, task_id).status_code
          \in {HTTP_200_OK, HTTP_404_NOT_FOUND}

\* as cancel, but accepting every task that has not finished, a RUNNING one included
cancel_unfinished(task_id, t, ret) ==
    /\ IF task_id \in DOMAIN active_tasks
          /\ active_tasks[task_id].status \in {PENDING, RUNNING}
       THEN /\ active_tasks' = [active_tasks EXCEPT
                                  ![task_id].status = FAILED,
                                  ![task_id].error = "Task cancelled",
                                  ![task_id].updated_at = isoformat(t),
                                  ![task_id].completed_at = isoformat(t)]
            /\ now' = t
            /\ cancelled' = cancelled \cup {task_id}
            /\ ret = TRUE
       ELSE /\ ret = FALSE
            /\ UNCHANGED <<active_tasks, cancelled, now>>
    /\ UNCHANGED <<queue, workers, max_workers, shutdown_event, task_processors,
                   next_uuid, invocations, abandoned>>

\* cancel(task_id) returning ret; t is pendulum.now(), read only on the PENDING branch
cancel(task_id, t, ret) ==
    /\ UNCHANGED <<queue, workers, max_workers, shutdown_event, task_processors,
                   next_uuid, invocations, abandoned>>
    /\ IF task_id \notin DOMAIN active_tasks
       THEN /\ ret = FALSE
            /\ UNCHANGED <<active_tasks, cancelled, now>>
       ELSE IF active_tasks[task_id].status = PENDING
       THEN /\ active_tasks' = [active_tasks EXCEPT
                                  ![task_id].status = FAILED,
                                  ![task_id].error = "Task cancelled",
                                  ![task_id].updated_at = isoformat(t),
                                  ![task_id].completed_at = isoformat(t)]
            /\ now' = t
            /\ cancelled' = cancelled \cup {task_id}
            /\ ret = TRUE
       ELSE /\ ret = FALSE
            /\ UNCHANGED <<active_tasks, cancelled, now>>

\* ------------------------------------------------------------ worker pool
\* a worker task is at one of: "created" (create_task was called, the coroutine has not
\* run yet), "waiting" (suspended in wait_for(queue.get())), "processing" (suspended
\* inside the processor of task), "exited" (left the while loop).  The workers differ
\* only in the name they log, so the pool is the bag of their states.
NewWorker == [pc |-> "created", task |-> UnknownId]
Waiting == [pc |-> "waiting", task |-> UnknownId]
Exited == [pc |-> "exited", task |-> UnknownId]
Processing(task_id) == [pc |-> "processing", task |-> task_id]

\* the pool with one worker moved from state a to state b
Move(pool, a, b) == (pool (-) SetToBag({a})) (+) SetToBag({b})

\* start_workers, on an empty pool as the application's lifespan and the tests use it
start_workers ==
    /\ workers = EmptyBag
    /\ workers' = workers (+) [x \in {NewWorker} |-> max_workers]
    /\ UNCHANGED <<queue, max_workers, active_tasks, shutdown_event, task_processors,
                   now, next_uuid, invocations, cancelled, abandoned>>

\* the finally block of _process_task; t is pendulum.now()
Finally(ledger, task_id, t) ==
    [ledger EXCEPT ![task_id].updated_at = isoformat(t),
                   ![task_id].completed_at = isoformat(t)]

\* ids of the tasks some worker is processing
InFlight == {ws.task : ws \in {x \in BagToSet(workers) : x.pc = "processing"}}

\* as CancelAll, but with the cancellation caught like a processor's exception
\* (except BaseException): the tasks in flight are marked FAILED
CancelAll_caught(ledger, ids, t) ==
    [i \in DOMAIN ledger |->
        IF i \in ids
        THEN [ledger[i] EXCEPT !.status = FAILED, !.error = "CancelledError",
                               !.updated_at = isoformat(t),
                               !.completed_at = isoformat(t)]
        ELSE ledger[i]]

\* what the cancellation of the worker tasks does to the ledger.  CancelledError is not
\* an Exception: thrown into a worker suspended inside a processor it skips the except
\* clause of _process_task, runs its finally block and ends the worker.
CancelAll(ledger, ids, t) ==
    [i \in DOMAIN ledger |-> IF i \in ids THEN Finally(ledger, i, t)[i] ELSE ledger[i]]

\* stop_workers: set the flag, cancel every worker task, gather them, clear the list
stop_workers(t) ==
    /\ shutdown_event' = TRUE
    /\ active_tasks' = CancelAll(active_tasks, InFlight, t)
    /\ now' = IF InFlight = {} THEN now ELSE t
    /\ abandoned' = [i \in DOMAIN abandoned \cup InFlight |->
                       IF i \in InFlight THEN active_tasks[i] ELSE abandoned[i]]
    /\ workers' = EmptyBag
    /\ UNCHANGED <<queue, max_workers, task_processors, next_uuid, invocations,
                   cancelled>>

\* as WhileTest, but a loop that does not look at the flag (while True)
WhileTrue == Waiting

\* while not self.shutdown_event.is_set(): the test at the top of each iteration
WhileTest == IF shutdown_event THEN Exited ELSE Waiting

\* the first step of a worker task: up to its first wait_for(self.queue.get(), ...)
worker_begin ==
    /\ BagIn(NewWorker, workers)
    /\ workers' = Move(workers, NewWorker, WhileTest)
    /\ UNCHANGED <<queue, max_workers, active_tasks, shutdown_event, task_processors,
                   now, next_uuid, invocations, cancelled, abandoned>>

\* wait_for times out on an empty queue: except TimeoutError: continue
worker_timeout ==
    /\ BagIn(Waiting, workers)
    /\ queue = <<>>
    /\ workers' = Move(workers, Waiting, WhileTest)
    /\ UNCHANGED <<queue, max_workers, active_tasks, shutdown_event, task_processors,
                   now, next_uuid, invocations, cancelled, abandoned>>

MarkRunning(ledger, task_id, t) ==
    [ledger EXCEPT ![task_id].status = RUNNING,
                   ![task_id].started_at = isoformat(t),
                   ![task_id].updated_at = isoformat(t)]

\* as MarkFailed, but an except clause that records the error and forgets the status
MarkFailed_no_status(ledger, task_id, e) ==
    [ledger EXCEPT ![task_id].error = e]

MarkFailed(ledger, task_id, e) ==
    [ledger EXCEPT ![task_id].status = FAILED, ![task_id].error = e]

MarkCompleted(ledger, task_id, result) ==
    [ledger EXCEPT ![task_id].status = COMPLETED, ![task_id].result = result]

NoProcessor == "No processor registered for task type"

\* as NoProcessorError, but a message that leaves the task type out
NoProcessorError_untyped(task_type) == NoProcessor

\* str(ValueError(f"No processor registered for task type: {task_type}"))
NoProcessorError(task_type) == NoProcessor \o ": " \o task_type

\* as worker_get, but a queue that hands out the item put last (a LifoQueue)
worker_get_last(t) ==
    /\ BagIn(Waiting, workers)
    /\ queue # <<>>
    /\ LET task == queue[Len(queue)]
           task_id == task.id
       IN /\ queue' = SubSeq(queue, 1, Len(queue) - 1)
          /\ IF task_id \notin DOMAIN active_tasks
             THEN /\ workers' = Move(workers, Waiting, WhileTest)
                  /\ UNCHANGED <<active_tasks, invocations, now>>
             ELSE IF task.task_type \notin task_processors
             THEN /\ active_tasks' =
                        Finally(MarkFailed(MarkRunning(active_tasks, task_id, t),
                                           task_id, NoProcessorError(task.task_type)),
                                task_id, t)
                  /\ workers' = Move(workers, Waiting, WhileTest)
                  /\ now' = t
                  /\ UNCHANGED invocations
             ELSE /\ active_tasks' = MarkRunning(active_tasks, task_id, t)
                  /\ workers' = Move(workers, Waiting, Processing(task_id))
                  /\ now' = t
                  /\ invocations' = [invocations EXCEPT ![task_id] = @ + 1]
    /\ UNCHANGED <<max_workers, shutdown_event, task_processors, next_uuid, cancelled,
                   abandoned>>

\* as worker_get, but a queue whose get() leaves the item in place
worker_get_peek(t) ==
    /\ BagIn(Waiting, workers)
    /\ queue # <<>>
    /\ LET task == Head(queue)
           task_id == task.id
       IN /\ queue' = queue
          /\ IF task_id \notin DOMAIN active_tasks
             THEN /\ workers' = Move(workers, Waiting, WhileTest)
                  /\ UNCHANGED <<active_tasks, invocations, now>>
             ELSE IF task.task_type \notin task_processors
             THEN /\ active_tasks' =
                        Finally(MarkFailed(MarkRunning(active_tasks, task_id, t),
                                           task_id, NoProcessorError(task.task_type)),
                                task_id, t)
                  /\ workers' = Move(workers, Waiting, WhileTest)
                  /\ now' = t
                  /\ UNCHANGED invocations
             ELSE /\ active_tasks' = MarkRunning(active_tasks, task_id, t)
                  /\ workers' = Move(workers, Waiting, Processing(task_id))
                  /\ now' = t
                  /\ invocations' = [invocations EXCEPT ![task_id] = @ + 1]
    /\ UNCHANGED <<max_workers, shutdown_event, task_processors, next_uuid, cancelled,
                   abandoned>>

\* a waiting worker gets the head of the queue; _process_task runs up to the await of
\* the processor, or to its end when the task is unknown or has no processor.  The
\* item leaves the queue when the worker resumes from queue.get(), and nothing awaits
\* between that and the await of the processor, so the stretch is one step; the two
\* clock reads of lines 176-177 are taken as one instant.
worker_get(t) ==
    /\ BagIn(Waiting, workers)
    /\ queue # <<>>
    /\ LET task == Head(queue)
           task_id == task.id
       IN /\ queue' = Tail(queue)
          /\ IF task_id \notin DOMAIN active_tasks
             THEN /\ workers' = Move(workers, Waiting, WhileTest)
                  /\ UNCHANGED <<active_tasks, invocations, now>>
             ELSE IF task.task_type \notin task_processors
             THEN /\ active_tasks' =
                        Finally(MarkFailed(MarkRunning(active_tasks, task_id, t),
                                           task_id, NoProcessorError(task.task_type)),
                                task_id, t)
                  /\ workers' = Move(workers, Waiting, WhileTest)
                  /\ now' = t
                  /\ UNCHANGED invocations
             ELSE /\ active_tasks' = MarkRunning(active_tasks, task_id, t)
                  /\ workers' = Move(workers, Waiting, Processing(task_id))
                  /\ now' = t
                  /\ invocations' = [invocations EXCEPT ![task_id] = @ + 1]
    /\ UNCHANGED <<max_workers, shutdown_event, task_processors, next_uuid, cancelled,
                   abandoned>>

\* result = await processor(task) returns in the worker processing task_id
processor_returns(task_id, result, t) ==
    /\ BagIn(Processing(task_id), workers)
    /\ now' = t
    /\ active_tasks' = Finally(MarkCompleted(active_tasks, task_id, result), task_id, t)
    /\ workers' = Move(workers, Processing(task_id), WhileTest)
    /\ UNCHANGED <<queue, max_workers, shutdown_event, task_processors, next_uuid,
                   invocations, cancelled, abandoned>>

\* as processor_raises, but with the exception escaping the worker loop: the worker ends
processor_raises_ends_worker(task_id, e, t) ==
    /\ BagIn(Processing(task_id), workers)
    /\ now' = t
    /\ active_tasks' = Finally(MarkFailed(active_tasks, task_id, e), task_id, t)
    /\ workers' = Move(workers, Processing(task_id), Exited)
    /\ UNCHANGED <<queue, max_workers, shutdown_event, task_processors, next_uuid,
                   invocations, cancelled, abandoned>>

\* await processor(task) raises an Exception e in the worker processing task_id;
\* str(e) is its message
processor_raises(task_id, e, t) ==
    /\ BagIn(Processing(task_id), workers)
    /\ now' = t
    /\ active_tasks' = Finally(MarkFailed(active_tasks, task_id, e), task_id, t)
    /\ workers' = Move(workers, Processing(task_id), WhileTest)
    /\ UNCHANGED <<queue, max_workers, shutdown_event, task_processors, next_uuid,
                   invocations, cancelled, abandoned>>

Next ==
    \/ \E ty \in TaskType, p \in Projects, t \in Clock : submit(ty, p, t) /\ UNCHANGED beyond_queue
    \/ \E i \in CallerIds, ret \in BOOLEAN :
          \E t \in (IF ret THEN Clock ELSE {now}) : cancel(i, t, ret) /\ UNCHANGED beyond_queue
    \/ \E i \in CallerIds, p \in Projects : get_task_details(p, i) /\ UNCHANGED beyond_queue
    \/ start_workers /\ UNCHANGED beyond_queue
    \/ \E t \in Clock : stop_workers(t) /\ UNCHANGED beyond_queue
    \/ worker_begin /\ UNCHANGED beyond_queue
    \/ worker_timeout /\ UNCHANGED beyond_queue
    \/ \E t \in Clock : worker_get(t) /\ UNCHANGED beyond_queue
    \/ \E i \in TaskIds, r \in HandlerResults, t \in Clock : processor_returns(i, r, t) /\ UNCHANGED beyond_queue
    \/ \E i \in TaskIds, e \in HandlerErrors, t \in Clock : processor_raises(i, e, t) /\ UNCHANGED beyond_queue

\* the queue as constructed, beside a project store, a storage backend and a task
\* manager that nothing drives
QueueInit ==
    /\ Init
    /\ NoProjectActivity
    /\ DefaultStorage
    /\ NewTaskManager

Spec == QueueInit /\ [][Next]_all_vars

\* ------------------------------------------------- the pool that is never stopped
\* Next without stop_workers, under the scheduling the event loop gives: a worker task
\* that can run is run, and a processor that was awaited returns or raises
LiveNext ==
    \/ \E ty \in TaskType, p \in Projects, t \in Clock : submit(ty, p, t) /\ UNCHANGED beyond_queue
    \/ \E i \in CallerIds, ret \in BOOLEAN :
          \E t \in (IF ret THEN Clock ELSE {now}) : cancel(i, t, ret) /\ UNCHANGED beyond_queue
    \/ \E i \in CallerIds, p \in Projects : get_task_details(p, i) /\ UNCHANGED beyond_queue
    \/ start_workers /\ UNCHANGED beyond_queue
    \/ worker_begin /\ UNCHANGED beyond_queue
    \/ worker_timeout /\ UNCHANGED beyond_queue
    \/ \E t \in Clock : worker_get(t) /\ UNCHANGED beyond_queue
    \/ \E i \in TaskIds, r \in HandlerResults, t \in Clock : processor_returns(i, r, t) /\ UNCHANGED beyond_queue
    \/ \E i \in TaskIds, e \in HandlerErrors, t \in Clock : processor_raises(i, e, t) /\ UNCHANGED beyond_queue

ProcessorEnds(i) ==
    \E t \in Clock :
        \/ \E r \in HandlerResults : processor_returns(i, r, t)
        \/ \E e \in HandlerErrors : processor_raises(i, e, t)

Fairness ==
    /\ WF_vars(worker_begin)
    /\ WF_vars(\E t \in Clock : worker_get(t))
    /\ \A i \in TaskIds : WF_vars(ProcessorEnds(i))

LiveSpec == QueueInit /\ [][LiveNext]_all_vars /\ Fairness

\* ------------------------------------------------------------------ claims
Known(i) == i \in DOMAIN active_tasks
Terminal(i) == active_tasks[i].status \in {COMPLETED, FAILED}
Started == workers # EmptyBag

\* C1: with workers started and never stopped and processors that return or raise, every
\* submitted task ends up COMPLETED or FAILED for good, and no ledger entry is dropped
C1_EveryTaskTerminates ==
    /\ \A i \in TaskIds : [](Known(i) /\ Started => <>[](Known(i) /\ Terminal(i)))
    /\ [][DOMAIN active_tasks \subseteq DOMAIN active_tasks']_vars

\* every task was submitted, the pool runs, and all of them are terminal, one of them
\* through its processor
C1_Witness ==
    /\ Started
    /\ DOMAIN active_tasks = TaskIds
    /\ \A i \in TaskIds : Terminal(i)
    /\ \E i \in TaskIds : invocations[i] = 1

\* C2: once cancel(task_id) has returned True the task never starts: it is never marked
\* RUNNING, its processor is never invoked, and it stays FAILED with the cancellation error
C2_CancelledNeverStarts ==
    \A i \in cancelled :
        /\ active_tasks[i].status = FAILED
        /\ active_tasks[i].error = "Task cancelled"
        /\ active_tasks[i].started_at = NoStamp
        /\ invocations[i] = 0

Pending(i) == Known(i) /\ active_tasks[i].status = PENDING

\* what C3 asks of a call cancel(i) that returns ret
CancelContract(i, ret) ==
       /\ ret <=> Pending(i)
       /\ ret => /\ DOMAIN active_tasks' = DOMAIN active_tasks
                 /\ active_tasks'[i] =
                        [active_tasks[i] EXCEPT !.status = FAILED,
                                                !.error = "Task cancelled",
                                                !.completed_at = isoformat(now'),
                                                !.updated_at = isoformat(now')]
                 /\ \A j \in DOMAIN active_tasks \ {i} : active_tasks'[j] = active_tasks[j]
       /\ ~ret => active_tasks' = active_tasks

\* C3: cancel returns True exactly when the task is PENDING, and then marks it FAILED with
\* the cancellation error and completed_at = updated_at = now; otherwise (RUNNING,
\* COMPLETED, FAILED, unknown id) it returns False and leaves the ledger unchanged.
\* The first conjunct is about the value cancel can return in each state, the second
\* about what a cancel step writes.
C3_CancelOnlyPending ==
    /\ [](\A i \in CallerIds, ret \in BOOLEAN :
             (ENABLED (\E t \in Clock : cancel(i, t, ret))) <=> (ret <=> Pending(i)))
    /\ [][UNCHANGED vars \/
            \A i \in CallerIds, ret \in BOOLEAN :
               (\E t \in Clock : cancel(i, t, ret)) => CancelContract(i, ret)]_vars

\* a cancel has returned True, and another task is RUNNING (cancel returns False for it)
C3_Witness ==
    \E i \in cancelled, j \in DOMAIN active_tasks :
        /\ active_tasks[i].status = FAILED
        /\ active_tasks[i].error = "Task cancelled"
        /\ active_tasks[i].completed_at = active_tasks[i].updated_at
        /\ active_tasks[j].status = RUNNING

\* C4: a task that was RUNNING when stop_workers() was called is RUNNING in every later
\* state
C4_AbandonedStaysRunning ==
    \A i \in DOMAIN abandoned : active_tasks[i].status = RUNNING

\* a task was abandoned by stop_workers(), and the workers of a later start_workers()
\* have come and gone
C4_Witness ==
    /\ DOMAIN abandoned # {}
    /\ BagIn(Exited, workers)

\* C5: stop_workers() writes no field of the ledger entry of a task it abandons: the
\* entry is as it was when stop_workers() was called
C5_AbandonedEntryUntouched ==
    \A i \in DOMAIN abandoned : active_tasks[i] = abandoned[i]

\* C6: a result is present only in a COMPLETED entry and an error only in a FAILED one
C6_ResultAndErrorMatchStatus ==
    \A i \in DOMAIN active_tasks :
        /\ active_tasks[i].result # None => active_tasks[i].status = COMPLETED
        /\ active_tasks[i].error # None => active_tasks[i].status = FAILED

\* C7: the timestamps that are set are ordered created_at <= started_at <= completed_at
C7_TimestampsOrdered ==
    \A i \in DOMAIN active_tasks :
        LET a == active_tasks[i]
        IN /\ a.started_at # NoStamp
                => fromisoformat(a.created_at) <= fromisoformat(a.started_at)
           /\ a.completed_at # NoStamp
                => fromisoformat(a.created_at) <= fromisoformat(a.completed_at)
           /\ a.started_at # NoStamp /\ a.completed_at # NoStamp
                => fromisoformat(a.started_at) <= fromisoformat(a.completed_at)

\* what C8 asks of a step in which the processor of task i raises e
HandlerFailureContract(i, e) ==
    /\ active_tasks'[i].status = FAILED
    /\ active_tasks'[i].error = e
    /\ active_tasks'[i].completed_at = isoformat(now')
    /\ active_tasks'[i].completed_at # NoStamp
    /\ active_tasks'[i].result = None
    /\ BagCardinality(workers') = BagCardinality(workers)
    /\ BagIn(Waiting, workers')
    /\ ~BagIn(Exited, workers')

\* C8: when a processor raises, the entry becomes FAILED with the exception's message,
\* completed_at set and no result, and the worker is back waiting for the next task: the
\* pool loses no worker
C8_HandlerExceptionContained ==
    [][UNCHANGED vars \/
         \A i \in TaskIds, e \in HandlerErrors, t \in Clock :
            processor_raises(i, e, t) => HandlerFailureContract(i, e)]_vars

\* in a pool of one worker, the processor of the first task raised and the worker went
\* on to the second task
C8_Witness ==
    /\ max_workers = 1
    /\ Known(1) /\ Known(2)
    /\ active_tasks[1].status = FAILED
    /\ active_tasks[1].error \in HandlerErrors
    /\ invocations[2] = 1
    /\ active_tasks[2].status = COMPLETED

\* the datetime (or None) that a stored ISO string (or None) stands for
Stored(date_string) == IF date_string = NoStamp THEN NoTime ELSE date_string[1]

\* what C9 asks of get_status(i) and of the endpoint's answer for task i of project p
GetStatusContract(p, i) ==
    IF ~Known(i)
    THEN /\ get_status(i) = [raised |-> "ValueError"]
         /\ get_task_details_response(p, i) = [status_code |-> HTTP_404_NOT_FOUND]
    ELSE LET a == active_tasks[i]
         IN /\ get_status(i) =
                  [raised |-> None,
                   info |-> [task_id |-> i, status |-> a.status,
                             task_type |-> a.task_type,
                             created_at |-> Stored(a.created_at),
                             updated_at |-> Stored(a.updated_at),
                             started_at |-> Stored(a.started_at),
                             completed_at |-> Stored(a.completed_at),
                             result |-> a.result, error |-> a.error]]
            /\ get_task_details_response(p, i).status_code = HTTP_200_OK
            /\ get_task_details_response(p, i).body.status = a.status

\* C9: get_status of an id that is not in the ledger raises (a 404 at the endpoint) and
\* returns no record; of a known id it returns the stored record; no call of the endpoint
\* modifies the ledger
C9_UnknownIdNotFound ==
    /\ [](\A i \in CallerIds, p \in Projects : GetStatusContract(p, i))
    /\ [][UNCHANGED vars \/
            \A i \in CallerIds, p \in Projects :
               get_task_details(p, i) => active_tasks' = active_tasks]_vars

\* the ledger holds a finished task and lacks another id: the endpoint answers 200 with
\* the stored status for the one and 404 for the other
C9_Witness ==
    \E p \in Projects :
        /\ Known(1) /\ active_tasks[1].status = COMPLETED
        /\ get_task_details_response(p, 1).status_code = HTTP_200_OK
        /\ get_task_details_response(p, 1).body.status = COMPLETED
        /\ ~Known(UnknownId)
        /\ get_task_details_response(p, UnknownId).status_code = HTTP_404_NOT_FOUND

\* what C10 asks of a call submit(ty, p): the id is that of the new tail of the queue
SubmitContract(ty, p) ==
    LET task_id == queue'[Len(queue')].id
    IN /\ task_id \notin DOMAIN active_tasks
       /\ DOMAIN active_tasks' = DOMAIN active_tasks \cup {task_id}
       /\ \A j \in DOMAIN active_tasks : active_tasks'[j] = active_tasks[j]
       /\ active_tasks'[task_id] =
              [status |-> PENDING, task_type |-> ty, project_id |-> p,
               created_at |-> isoformat(now'), updated_at |-> isoformat(now'),
               started_at |-> NoStamp, completed_at |-> NoStamp,
               error |-> None, result |-> None]
       /\ queue' = Append(queue, [id |-> task_id, task_type |-> ty, project_id |-> p])
       /\ workers' = workers

\* C10: submit allocates an id never issued before, writes a PENDING entry with only
\* created_at set, appends the payload to the queue tail and returns with no worker
\* having run: the entry reads PENDING right after submit
C10_SubmitWritesPending ==
    [][UNCHANGED vars \/
         \A ty \in TaskType, p \in Projects, t \in Clock :
            submit(ty, p, t) => SubmitContract(ty, p)]_vars

\* the last task was submitted while a worker was processing another one, and is PENDING
\* at the tail of the queue
C10_Witness ==
    /\ next_uuid > 2
    /\ BagIn(Processing(1), workers)
    /\ queue # <<>>
    /\ queue[Len(queue)].id = next_uuid - 1
    /\ active_tasks[next_uuid - 1].status = PENDING
    /\ fromisoformat(active_tasks[next_uuid - 1].created_at)
          >= fromisoformat(active_tasks[1].started_at)

\* ------------------------------------------------ the processors behind the queue
\* get_task_processors: process_task is registered for both task types
get_task_processors == {INFERENCE, POLYGONIZE}

\* the storage key and the local file a handler reports
K == "projects/P1/results/x.tif"
F == "/tmp/x.tif"

\* what the handler awaited by process_task can return, by name; result_data is the
\* dict.  run_project_inference and run_project_polygonize return the local file and
\* the storage key; a stub may return any dict.
HandlerOutputs(task_type) ==
    IF task_type = INFERENCE
    THEN {"inference_key", "inference_file+inference_key", "inference_file"}
    ELSE {"polygon_file+polygon_key", "polygon_key"}

result_data(r) ==
    CASE r = "inference_key" -> [inference_key |-> K]
      [] r = "inference_file+inference_key" -> [inference_file |-> F, inference_key |-> K]
      [] r = "inference_file" -> [inference_file |-> F]
      [] r = "polygon_file+polygon_key" -> [polygon_file |-> F, polygon_key |-> K]
      [] r = "polygon_key" -> [polygon_key |-> K]

\* dict.get(key): None when the key is absent; bool(value) of a string or None
get(d, key) == IF key \in DOMAIN d THEN d[key] ELSE None
bool(v) == v # None /\ v # ""

\* as update_project_status, but with a guard: a COMPLETED project is left alone
update_project_status_guarded(rows, project_id, new_status) ==
    IF rows[project_id].status = COMPLETED
    THEN rows
    ELSE [rows EXCEPT ![project_id].status = new_status]

\* update_project_status(project_id, new_status)
update_project_status(rows, project_id, new_status) ==
    [rows EXCEPT ![project_id].status = new_status]

\* record_task_completion(project_id, task_type, result_data): the rows it leaves and
\* the exception it raises, if any.  The InferenceResult row is saved before
\* result_data[file_key] is read, so a KeyError leaves the row saved and the project
\* untouched.  The metrics stored beside file_path are left out.
record_task_completion(project_id, task_type, rd) ==
    LET result_key == IF task_type = INFERENCE THEN "inference" ELSE "polygons"
        file_key == IF task_type = INFERENCE THEN "inference_key" ELSE "polygon_key"
        file_check_key == IF task_type = INFERENCE THEN "inference_file"
                                                   ELSE "polygon_file"
        result_type == IF task_type = INFERENCE THEN "image" ELSE "geojson"
    IN IF bool(get(rd, file_check_key))
       THEN LET file_path == IF file_key \in DOMAIN rd THEN rd[file_key]
                                                       ELSE rd[file_check_key]
                saved == Append(inference_results,
                                [project_id |-> project_id, result_type |-> result_type,
                                 file_path |-> file_path])
            IN IF file_key \notin DOMAIN rd
               THEN [raised |-> "'" \o file_key \o "'", projects |-> projects,
                     inference_results |-> saved]
               ELSE [raised |-> None,
                     projects |-> [projects EXCEPT
                                      ![project_id].results =
                                            Put(@, result_key, rd[file_key]),
                                      ![project_id].status = COMPLETED],
                     inference_results |-> saved]
       ELSE [raised |-> None, projects |-> projects,
             inference_results |-> inference_results]

\* as process_task_gate, but letting every result through
process_task_gate_open(rd) == TRUE

\* if result.get("inference_file") or result.get("polygon_file"):
process_task_gate(rd) ==
    bool(get(rd, "inference_file")) \/ bool(get(rd, "polygon_file"))

\* a waiting worker gets the head of the queue and, when it has a ledger entry and a
\* processor, awaits process_task, which runs to the await of its handler: the project
\* is marked RUNNING on the way
process_task_begins(t) ==
    /\ worker_get(t)
    /\ LET task == Head(queue)
       IN projects' = IF task.id \in DOMAIN active_tasks
                         /\ task.task_type \in task_processors
                      THEN update_project_status(projects, task.project_id, RUNNING)
                      ELSE projects
    /\ UNCHANGED <<inference_results, completions>>

\* the handler awaited by process_task returns r: process_task records the completion
\* when the gate lets it and returns r to the worker, or raises what
\* record_task_completion raised
process_task_returns(task_id, r, t) ==
    /\ BagIn(Processing(task_id), workers)
    /\ r \in HandlerOutputs(active_tasks[task_id].task_type)
    /\ LET task_type == active_tasks[task_id].task_type
           project_id == active_tasks[task_id].project_id
           rd == result_data(r)
       IN IF process_task_gate(rd)
          THEN LET out == record_task_completion(project_id, task_type, rd)
               IN /\ completions' = Append(completions,
                                           [task_id |-> task_id,
                                            project_id |-> project_id,
                                            task_type |-> task_type, result |-> r])
                  /\ projects' = out.projects
                  /\ inference_results' = out.inference_results
                  /\ IF out.raised # None
                     THEN processor_raises(task_id, out.raised, t)
                     ELSE processor_returns(task_id, r, t)
          ELSE /\ processor_returns(task_id, r, t)
               /\ UNCHANGED dispatch_vars

\* as process_task_raises, but with an except clause in process_task that marks the
\* project FAILED before it raises again
process_task_raises_marks_project(task_id, e, t) ==
    /\ processor_raises(task_id, e, t)
    /\ projects' = update_project_status(projects, active_tasks[task_id].project_id,
                                         FAILED)
    /\ UNCHANGED <<inference_results, completions>>

\* the handler awaited by process_task raises e: process_task raises it
process_task_raises(task_id, e, t) ==
    /\ processor_raises(task_id, e, t)
    /\ UNCHANGED dispatch_vars

AllOutputs == UNION {HandlerOutputs(ty) : ty \in TaskType}

DispatchInit ==
    /\ queue = <<>>
    /\ workers = EmptyBag
    /\ max_workers \in PoolSizes
    /\ active_tasks = <<>>
    /\ shutdown_event = FALSE
    /\ task_processors = get_task_processors
    /\ now = 0
    /\ next_uuid = 1
    /\ invocations = <<>>
    /\ cancelled = {}
    /\ abandoned = <<>>
    /\ NoProjectActivity
    /\ DefaultStorage
    /\ NewTaskManager

DispatchNext ==
    \/ \E ty \in TaskType, p \in Projects, t \in Clock :
          submit(ty, p, t) /\ UNCHANGED beyond_queue
    \/ \E i \in TaskIds, t \in Clock : cancel(i, t, TRUE) /\ UNCHANGED beyond_queue
    \/ start_workers /\ UNCHANGED beyond_queue
    \/ \E t \in Clock : stop_workers(t) /\ UNCHANGED beyond_queue
    \/ worker_begin /\ UNCHANGED beyond_queue
    \/ worker_timeout /\ UNCHANGED beyond_queue
    \/ \E t \in Clock : process_task_begins(t) /\ UNCHANGED beyond_dispatch
    \/ \E i \in TaskIds, r \in AllOutputs, t \in Clock :
          process_task_returns(i, r, t) /\ UNCHANGED beyond_dispatch
    \/ \E i \in TaskIds, e \in HandlerErrors, t \in Clock :
          process_task_raises(i, e, t) /\ UNCHANGED beyond_dispatch

DispatchSpec == DispatchInit /\ [][DispatchNext]_all_vars

\* C11: with one worker, an INFERENCE task for P1 whose handler returned a result
\* carrying only inference_key = K and that is COMPLETED with K in its result has had
\* record_task_completion called exactly once, with K
CompletionsOf(i) == {n \in DOMAIN completions : completions[n].task_id = i}
C11_KeyOnlyResultRecorded ==
    \A i \in DOMAIN active_tasks :
        (/\ max_workers = 1
         /\ active_tasks[i].task_type = INFERENCE
         /\ active_tasks[i].project_id = "P1"
         /\ active_tasks[i].status = COMPLETED
         /\ active_tasks[i].result = "inference_key")
        => /\ get(result_data(active_tasks[i].result), "inference_key") = K
           /\ Cardinality(CompletionsOf(i)) = 1
           /\ \A n \in CompletionsOf(i) :
                 get(result_data(completions[n].result), "inference_key") = K

\* ---- LocalStorage
\* a failure of the file system under an operation: none, or permission denied on
\* the path (a directory above it that cannot be searched)
LocalFaults == {None, "PermissionError"}

\* aiofiles.os.path.exists / isfile: os.stat succeeded; any OSError gives False
path_exists(path, fault) == fault = None /\ (path \in DOMAIN fs.files \/ path \in fs.dirs)
path_isfile(path, fault) == fault = None /\ path \in DOMAIN fs.files

\* the entries of scandir(dir) that are files: the files directly in dir
scandir_files(dir) ==
    {f \in DOMAIN fs.files : parent(f) = dir}

Returned(kind, value) == [kind |-> kind, value |-> value]
ReturnedNone == [kind |-> "none"]
Raised(e) == [kind |-> "raised", error |-> e]

\* each operation of LocalStorage: what it returns or raises (ret) and the tree it
\* leaves (fs)
LocalStorage_upload(body, key, fault) ==
    IF fault # None \/ key \in fs.dirs \/ parents(key) \cap DOMAIN fs.files # {}
    THEN [ret |-> Raised(IF fault # None THEN fault
                         ELSE IF key \in fs.dirs THEN "IsADirectoryError"
                         ELSE "FileExistsError"), fs |-> fs]
    ELSE [ret |-> Returned("key", key),
          fs |-> [files |-> Put(fs.files, key, body),
                  dirs |-> fs.dirs \cup parents(key)]]

LocalStorage_download(key, fault) ==
    IF ~path_exists(key, fault)
    THEN [ret |-> Raised("FileNotFoundError"), fs |-> fs]
    ELSE IF key \in fs.dirs
    THEN [ret |-> Raised("IsADirectoryError"), fs |-> fs]
    ELSE [ret |-> Returned("bytes", fs.files[key]), fs |-> fs]

LocalStorage_get_url(key, fault) ==
    [ret |-> IF path_exists(key, fault)
             THEN Returned("url", [scheme |-> "file", path |-> key])
             ELSE Returned("url", key),
     fs |-> fs]

LocalStorage_delete(key, fault) ==
    IF fault # None THEN [ret |-> Raised(fault), fs |-> fs]
    ELSE IF key \in fs.dirs THEN [ret |-> Raised("IsADirectoryError"), fs |-> fs]
    ELSE IF key \in DOMAIN fs.files
    THEN [ret |-> ReturnedNone, fs |-> [fs EXCEPT !.files = Remove(@, key)]]
    ELSE [ret |-> ReturnedNone, fs |-> fs]

LocalStorage_list_files(prefix, fault) ==
    [ret |-> IF ~path_exists(prefix, fault) THEN Returned("keys", {})
             ELSE IF path_isfile(prefix, fault) THEN Returned("keys", {prefix})
             ELSE Returned("keys", scandir_files(prefix)),
     fs |-> fs]

LocalStorage_file_exists(key, fault) ==
    [ret |-> Returned("bool", path_exists(key, fault)), fs |-> fs]

LocalStorage(op, arg, body, fault) ==
    CASE op = "upload" -> LocalStorage_upload(body, arg, fault)
      [] op = "download" -> LocalStorage_download(arg, fault)
      [] op = "get_url" -> LocalStorage_get_url(arg, fault)
      [] op = "delete" -> LocalStorage_delete(arg, fault)
      [] op = "list_files" -> LocalStorage_list_files(arg, fault)
      [] op = "file_exists" -> LocalStorage_file_exists(arg, fault)

\* ---- SourceCoopStorage
\* self.bucket_name: "" until _lazy_init sets it
bucket_name == IF initialized THEN config.bucket_name ELSE ""

\* f"{repository_path}/{key}" if repository_path else key
get_storage_key(key) ==
    IF config.repository_path # <<>>
    THEN config.repository_path \o slash \o key
    ELSE key

\* as _strip_repository_path, but returning the storage key as it is
strip_nothing(storage_key) == storage_key

strip_repository_path(storage_key) ==
    IF config.repository_path # <<>>
    THEN removeprefix(storage_key, config.repository_path \o slash)
    ELSE storage_key

\* as _get_actual_bucket, but the logical bucket whatever the mode (what get_url uses)
get_logical_bucket == bucket_name

get_actual_bucket ==
    IF config.use_sts_workaround THEN config.sts_real_bucket ELSE bucket_name

get_actual_storage_key(key) ==
    IF config.use_sts_workaround
    THEN config.sts_bucket_prefix \o slash \o get_storage_key(key)
    ELSE get_storage_key(key)

\* a failure of the object store under a call: none, or a ClientError with this code
S3Faults == {None, "AccessDenied"}
ClientError(code) == [kind |-> "raised", error |-> "ClientError", code |-> code]

\* the keys list_objects_v2(Bucket, Prefix) yields: those of the bucket that start
\* with Prefix
list_objects_v2(bucket, prefix) ==
    {o[2] : o \in {x \in DOMAIN s3 : x[1] = bucket /\ startswith(x[2], prefix)}}

\* each S3 call of SourceCoopStorage, made on the client: what the operation returns
\* or raises (ret), the store it leaves (s3) and the pair it addressed
SourceCoopStorage_upload(body, key, fault) ==
    LET bucket == get_actual_bucket
        storage_key == get_actual_storage_key(key)
    IN [addressed |-> <<bucket, storage_key>>,
        ret |-> IF fault # None THEN ClientError(fault) ELSE Returned("key", key),
        s3 |-> IF fault # None THEN s3 ELSE Put(s3, <<bucket, storage_key>>, body)]

\* as download, but addressing the logical bucket and the key without the STS prefix
\* (what get_url uses)
SourceCoopStorage_download_logical(key, fault) ==
    LET bucket == bucket_name
        storage_key == get_storage_key(key)
    IN [addressed |-> <<bucket, storage_key>>,
        ret |-> IF fault # None THEN ClientError(fault)
                ELSE IF <<bucket, storage_key>> \notin DOMAIN s3 THEN ClientError("404")
                ELSE Returned("bytes", s3[<<bucket, storage_key>>]),
        s3 |-> s3]

SourceCoopStorage_download(key, fault) ==
    LET bucket == get_actual_bucket
        storage_key == get_actual_storage_key(key)
    IN [addressed |-> <<bucket, storage_key>>,
        ret |-> IF fault # None THEN ClientError(fault)
                ELSE IF <<bucket, storage_key>> \notin DOMAIN s3 THEN ClientError("404")
                ELSE Returned("bytes", s3[<<bucket, storage_key>>]),
        s3 |-> s3]

SourceCoopStorage_delete(key, fault) ==
    LET bucket == get_actual_bucket
        storage_key == get_actual_storage_key(key)
    IN [addressed |-> <<bucket, storage_key>>,
        ret |-> IF fault # None THEN ClientError(fault) ELSE ReturnedNone,
        s3 |-> IF fault # None THEN s3 ELSE Remove(s3, <<bucket, storage_key>>)]

SourceCoopStorage_list_files(prefix, fault) ==
    LET bucket == get_actual_bucket
        storage_prefix == get_actual_storage_key(prefix)
        keys == list_objects_v2(bucket, storage_prefix)
        stripped == IF config.use_sts_workaround
                    THEN {removeprefix(k, config.sts_bucket_prefix \o slash) : k \in keys}
                    ELSE keys
    IN [addressed |-> <<bucket, storage_prefix>>,
        ret |-> IF fault # None THEN ClientError(fault)
                ELSE Returned("keys", {strip_repository_path(k) : k \in stripped}),
        s3 |-> s3]

SourceCoopStorage_file_exists(key, fault) ==
    LET bucket == get_actual_bucket
        storage_key == get_actual_storage_key(key)
    IN [addressed |-> <<bucket, storage_key>>,
        ret |-> LET head_object ==
                        IF fault # None THEN ClientError(fault)
                        ELSE IF <<bucket, storage_key>> \notin DOMAIN s3
                        THEN ClientError("404")
                        ELSE ReturnedNone
                IN IF head_object.kind # "raised" THEN Returned("bool", TRUE)
                   ELSE IF head_object.code = "404" THEN Returned("bool", FALSE)
                   ELSE head_object,
        s3 |-> s3]

SourceCoopStorage(op, arg, body, fault) ==
    CASE op = "upload" -> SourceCoopStorage_upload(body, arg, fault)
      [] op = "download" -> SourceCoopStorage_download(arg, fault)
      [] op = "delete" -> SourceCoopStorage_delete(arg, fault)
      [] op = "list_files" -> SourceCoopStorage_list_files(arg, fault)
      [] op = "file_exists" -> SourceCoopStorage_file_exists(arg, fault)

\* get_url once _lazy_init has returned: the URL under the logical bucket
SourceCoopStorage_get_url(key) ==
    Returned("url", [endpoint_url |-> config.endpoint_url, bucket |-> bucket_name,
                     key |-> get_storage_key(key)])

\* ---- the operations as the event loop runs them
\* An operation of LocalStorage is one step.  An operation of SourceCoopStorage
\* suspends where it awaits the network: inside _lazy_init at the secrets lookup,
\* inside _get_sts_s3_client at assume_role, and at the S3 call itself.
MaxCounted == 2
Count(n) == IF n < MaxCounted THEN n + 1 ELSE n

InFlight_op(op, arg, body, stage) ==
    [stage |-> stage, op |-> op, arg |-> arg, body |-> body]
Done(rec, ret, addressed, fault) ==
    [stage |-> "done", op |-> rec.op, arg |-> rec.arg, body |-> rec.body,
     ret |-> ret, addressed |-> addressed, fault |-> fault]
NoAddress == <<>>

\* an exception e leaves the operation: get_url catches every Exception and returns
\* the key, the other operations let it through
Fails(rec, e) ==
    IF rec.op = "get_url" THEN Done(rec, Returned("url", rec.arg), NoAddress, e.error)
    ELSE Done(rec, e, NoAddress, e.error)

\* where the operation stands once _lazy_init has returned: get_url builds the URL;
\* the others ask for a client, which with the STS workaround awaits assume_role
AfterInit(rec) ==
    IF rec.op = "get_url"
    THEN Done(rec, SourceCoopStorage_get_url(rec.arg), NoAddress, None)
    ELSE IF config.use_sts_workaround THEN [rec EXCEPT !.stage = "sts"]
    ELSE [rec EXCEPT !.stage = "s3"]

\* the ledger of uploads kept for the statements below
Track(rec, ret) ==
    IF ret.kind = "raised" THEN uploaded
    ELSE IF rec.op = "upload" THEN Put(uploaded, rec.arg, rec.body)
    ELSE IF rec.op = "delete" THEN Remove(uploaded, rec.arg)
    ELSE uploaded

\* caller c calls op(arg) on the backend.  LocalStorage: the whole operation.
\* SourceCoopStorage: up to the first await that suspends, through _lazy_init when it
\* has nothing to await.
call(c, op, arg, body, fault) ==
    /\ pc[c] = Idle
    /\ UNCHANGED <<config, s3>>
    /\ LET rec == InFlight_op(op, arg, body, "init")
       IN IF config.backend = "local"
          THEN LET out == LocalStorage(op, arg, body, fault)
               IN /\ fs' = out.fs
                  /\ pc' = [pc EXCEPT ![c] = Done(rec, out.ret, NoAddress, fault)]
                  /\ uploaded' = Track(rec, out.ret)
                  /\ UNCHANGED <<initialized, credentials, resolutions>>
          ELSE /\ fault = None
               /\ UNCHANGED <<fs, uploaded>>
               /\ IF initialized
                  THEN /\ pc' = [pc EXCEPT ![c] = AfterInit(rec)]
                       /\ resolutions' = IF pc'[c].stage = "sts"
                                         THEN Count(resolutions) ELSE resolutions
                       /\ UNCHANGED <<initialized, credentials>>
                  ELSE IF config.use_sts_workaround
                  THEN /\ initialized' = TRUE
                       /\ credentials' = None
                       /\ pc' = [pc EXCEPT ![c] = AfterInit(rec)]
                       /\ resolutions' = IF pc'[c].stage = "sts"
                                         THEN Count(resolutions) ELSE resolutions
                  ELSE IF config.use_secrets_manager
                  THEN /\ pc' = [pc EXCEPT ![c] = [rec EXCEPT !.stage = "secrets"]]
                       /\ resolutions' = Count(resolutions)
                       /\ UNCHANGED <<initialized, credentials>>
                  ELSE IF config.access_key_id = None
                  THEN /\ pc' = [pc EXCEPT ![c] =
                                    Fails(rec, Raised("ValueError"))]
                       /\ UNCHANGED <<initialized, credentials, resolutions>>
                  ELSE /\ initialized' = TRUE
                       /\ credentials' = config.access_key_id
                       /\ pc' = [pc EXCEPT ![c] = AfterInit(rec)]
                       /\ resolutions' = Count(resolutions)

\* secrets_manager.get_source_coop_credentials returns to c inside _lazy_init
secrets_return(c) ==
    /\ pc[c].stage = "secrets"
    /\ initialized' = TRUE
    /\ credentials' = "secret"
    /\ pc' = [pc EXCEPT ![c] = AfterInit(pc[c])]
    /\ UNCHANGED <<config, s3, fs, uploaded, resolutions>>

\* the secrets lookup raises: _lazy_init raises, _initialized stays False
secrets_raise(c) ==
    /\ pc[c].stage = "secrets"
    /\ pc' = [pc EXCEPT ![c] = Fails(pc[c], Raised("ValueError"))]
    /\ UNCHANGED <<config, initialized, credentials, s3, fs, uploaded, resolutions>>

\* sts.assume_role returns temporary credentials to c: the S3 call is made
assume_role_returns(c) ==
    /\ pc[c].stage = "sts"
    /\ pc' = [pc EXCEPT ![c].stage = "s3"]
    /\ UNCHANGED <<config, initialized, credentials, s3, fs, uploaded, resolutions>>

\* sts.assume_role raises
assume_role_raises(c) ==
    /\ pc[c].stage = "sts"
    /\ pc' = [pc EXCEPT ![c] = Fails(pc[c], ClientError("AccessDenied"))]
    /\ UNCHANGED <<config, initialized, credentials, s3, fs, uploaded, resolutions>>

\* the object store answers the S3 call of c, and the operation returns or raises
s3_responds(c, fault) ==
    /\ pc[c].stage = "s3"
    /\ LET rec == pc[c]
           out == SourceCoopStorage(rec.op, rec.arg, rec.body, fault)
       IN /\ s3' = out.s3
          /\ pc' = [pc EXCEPT ![c] = Done(rec, out.ret, out.addressed, fault)]
          /\ uploaded' = Track(rec, out.ret)
    /\ UNCHANGED <<config, initialized, credentials, fs, resolutions>>

\* the caller has its answer and goes on
returns(c) ==
    /\ pc[c].stage = "done"
    /\ pc' = [pc EXCEPT ![c] = Idle]
    /\ UNCHANGED <<config, initialized, credentials, s3, fs, uploaded, resolutions>>

\* one coroutine using a backend of any configuration, with every key and prefix
StorageInit ==
    /\ \E cfg \in StorageConfigs : Constructed(cfg)
    /\ Init /\ max_workers = 1
    /\ NoProjectActivity
    /\ NewTaskManager

StorageNext ==
    \/ \E op \in Operations, fault \in LocalFaults :
          \E arg \in Args(op), body \in Bodies(op) :
             call("w1", op, arg, body, fault) /\ UNCHANGED beyond_storage
    \/ secrets_return("w1") /\ UNCHANGED beyond_storage
    \/ secrets_raise("w1") /\ UNCHANGED beyond_storage
    \/ assume_role_returns("w1") /\ UNCHANGED beyond_storage
    \/ assume_role_raises("w1") /\ UNCHANGED beyond_storage
    \/ \E fault \in S3Faults : s3_responds("w1", fault) /\ UNCHANGED beyond_storage
    \/ returns("w1") /\ UNCHANGED beyond_storage

StorageSpec == StorageInit /\ [][StorageNext]_all_vars

\* several coroutines sharing one cross-account backend, all working on one key
SharedKey == <<"p", "/", "x">>
SharedArgs(op) == IF op = "list_files" THEN {parent(SharedKey)} ELSE {SharedKey}
SharedBody(op) == IF op = "upload" THEN "b1" ELSE None

SharedInit ==
    /\ \E cfg \in StorageConfigs : cfg.backend = "source_coop" /\ Constructed(cfg)
    /\ Init /\ max_workers = 1
    /\ NoProjectActivity
    /\ NewTaskManager

SharedNext ==
    \/ \E c \in Callers, op \in Operations :
          \E arg \in SharedArgs(op) :
             call(c, op, arg, SharedBody(op), None) /\ UNCHANGED beyond_storage
    \/ \E c \in Callers : secrets_return(c) /\ UNCHANGED beyond_storage
    \/ \E c \in Callers : secrets_raise(c) /\ UNCHANGED beyond_storage
    \/ \E c \in Callers : assume_role_returns(c) /\ UNCHANGED beyond_storage
    \/ \E c \in Callers : assume_role_raises(c) /\ UNCHANGED beyond_storage
    \/ \E c \in Callers, fault \in S3Faults :
          s3_responds(c, fault) /\ UNCHANGED beyond_storage
    \/ \E c \in Callers : returns(c) /\ UNCHANGED beyond_storage

SharedSpec == SharedInit /\ [][SharedNext]_all_vars

\* ------------------------------------------------------------ storage claims
\* the operation caller c has just finished, if any
Finished(c, op) == pc[c].stage = "done" /\ pc[c].op = op
S3Operations == {"upload", "download", "delete", "list_files", "file_exists"}

\* C12: with the STS workaround, each of upload, download, delete, list_files and
\* file_exists that reached the object store addressed, for its logical key k, the pair
\* (sts_real_bucket, sts_bucket_prefix/repository_path/k) (the repository segment
\* absent when no repository path is configured), which is not the logical pair
\* (bucket_name, k); and every object written lies in sts_real_bucket
PhysicalKey(k) ==
    config.sts_bucket_prefix \o slash
        \o (IF config.repository_path = <<>> THEN <<>>
            ELSE config.repository_path \o slash)
        \o k
C12_StsAddressing ==
    (config.backend = "source_coop" /\ config.use_sts_workaround)
    => /\ \A c \in Callers :
            (pc[c].stage = "done" /\ pc[c].op \in S3Operations
                                  /\ pc[c].addressed # NoAddress)
            => /\ pc[c].addressed = <<config.sts_real_bucket, PhysicalKey(pc[c].arg)>>
               /\ pc[c].addressed # <<config.bucket_name, pc[c].arg>>
       /\ \A o \in DOMAIN s3 : o[1] = config.sts_real_bucket

\* an upload and then a listing of its directory, both through the STS workaround with
\* a repository path, the second having addressed the store
C12_Witness ==
    /\ config.use_sts_workaround
    /\ config.repository_path # <<>>
    /\ DOMAIN uploaded # {}
    /\ Finished("w1", "list_files")
    /\ pc["w1"].addressed # NoAddress
    /\ pc["w1"].ret.kind = "keys"
    /\ pc["w1"].ret.value # {}

\* C13: on the cross-account backend, with or without a repository path and with or
\* without the STS workaround, a listing that returned gives exactly the logical keys
\* uploaded (and not deleted) that start with the prefix, each as the caller uploaded
\* it; and each key returned, mapped again as download, delete and file_exists map it,
\* is the object that holds that upload
C13_ListReturnsLogicalKeys ==
    \A c \in Callers :
        (config.backend = "source_coop" /\ Finished(c, "list_files")
                                        /\ pc[c].ret.kind = "keys")
        => /\ pc[c].ret.value = {k \in DOMAIN uploaded : startswith(k, pc[c].arg)}
           /\ \A k \in pc[c].ret.value :
                 LET o == <<get_actual_bucket, get_actual_storage_key(k)>>
                 IN o \in DOMAIN s3 /\ s3[o] = uploaded[k]

\* a listing of the root that returned two keys, one of them r/x, from a store with
\* the repository path r
C13_Witness ==
    /\ config.backend = "source_coop"
    /\ config.repository_path = <<"r">>
    /\ Finished("w1", "list_files")
    /\ pc["w1"].arg = <<>>
    /\ pc["w1"].ret.kind = "keys"
    /\ Cardinality(pc["w1"].ret.value) = 2
    /\ <<"r", "/", "x">> \in pc["w1"].ret.value

\* C14: on the local backend and on the cross-account backend in each credential mode,
\* an upload that returned has returned the caller's key; and for a key whose upload
\* returned, with no delete of it since, and under no fault of the backend:
\* file_exists returns true, list_files of the key's directory contains the key, and
\* download writes the bytes of the last upload
Kept(c) == pc[c].arg \in DOMAIN uploaded /\ pc[c].fault = None
C14_RoundTrip ==
    \A c \in Callers :
        /\ (Finished(c, "upload") /\ pc[c].ret.kind # "raised")
           => /\ pc[c].ret = Returned("key", pc[c].arg)
              /\ pc[c].arg \in DOMAIN uploaded /\ uploaded[pc[c].arg] = pc[c].body
        /\ (Finished(c, "file_exists") /\ Kept(c))
           => pc[c].ret = Returned("bool", TRUE)
        /\ (Finished(c, "download") /\ Kept(c))
           => pc[c].ret = Returned("bytes", uploaded[pc[c].arg])
        /\ (Finished(c, "list_files") /\ pc[c].fault = None)
           => /\ pc[c].ret.kind = "keys"
              /\ \A k \in DOMAIN uploaded : parent(k) = pc[c].arg => k \in pc[c].ret.value

\* the bytes b2 downloaded from a key that was uploaded twice, through the STS
\* workaround
C14_Witness ==
    /\ config.use_sts_workaround
    /\ Finished("w1", "download")
    /\ pc["w1"].ret = Returned("bytes", "b2")
    /\ \E k \in DOMAIN uploaded : k # pc["w1"].arg

\* C15: over the lifetime of one cross-account backend shared by several workers,
\* credentials are resolved at most once, whatever the credential mode
C15_CredentialsResolvedOnce == resolutions <= 1

\* C16: a cross-account backend that has only been constructed holds no credentials,
\* and an operation under which the resolution of credentials failed (the static keys
\* missing, the secrets lookup or assume_role raising) has raised, whichever of the six
\* operations it is
ResolutionFailures == {"ValueError", "ClientError"}
C16_ResolutionFailureSurfaces ==
    /\ ~initialized => credentials = None
    /\ \A c \in Callers :
          (config.backend = "source_coop" /\ pc[c].stage = "done"
                                          /\ pc[c].fault \in ResolutionFailures)
          => pc[c].ret.kind = "raised"

\* C17: on every backend file_exists of a missing object returns false and download of
\* a missing object raises a not-found error (FileNotFoundError, or the ClientError
\* with code 404); under any other failure of the backend the operation raises that
\* failure, and neither returns false nor raises not-found
NotFound(ret) ==
    /\ ret.kind = "raised"
    /\ \/ ret.error = "FileNotFoundError"
       \/ ret.error = "ClientError" /\ ret.code = "404"
Present(key) ==
    IF config.backend = "local" THEN key \in DOMAIN fs.files \cup fs.dirs
    ELSE <<get_actual_bucket, get_actual_storage_key(key)>> \in DOMAIN s3
C17_OnlyMissingIsNotFound ==
    \A c \in Callers :
        /\ (Finished(c, "file_exists") /\ pc[c].fault = None /\ ~Present(pc[c].arg))
           => pc[c].ret = Returned("bool", FALSE)
        /\ (Finished(c, "download") /\ pc[c].fault = None /\ ~Present(pc[c].arg))
           => NotFound(pc[c].ret)
        /\ (pc[c].stage = "done" /\ pc[c].op \in {"file_exists", "download"}
                                 /\ pc[c].fault # None)
           => /\ pc[c].ret.kind = "raised"
              /\ ~NotFound(pc[c].ret)

\* C18: LocalStorage.list_files(prefix) of a directory returns the keys of the files
\* below it at any depth, and nothing else
walk_files(dir) == {f \in DOMAIN fs.files : dir \in parents(f)}
C18_ListWalksSubtree ==
    \A c \in Callers :
        (config.backend = "local" /\ Finished(c, "list_files") /\ pc[c].fault = None
                                  /\ pc[c].arg \in fs.dirs)
        => pc[c].ret = Returned("keys", walk_files(pc[c].arg))

\* ------------------------------------------------------------ ordering claims
\* ids are issued in the order of the submit calls: j was submitted before i iff j < i
Before(i) == 1 .. (i - 1)
IsStarted(i) ==
    active_tasks[i].started_at = NoStamp /\ active_tasks'[i].started_at # NoStamp
BecomesTerminal(i) ==
    ~Terminal(i) /\ active_tasks'[i].status \in {COMPLETED, FAILED}
RunningNext == {i \in DOMAIN active_tasks' : active_tasks'[i].status = RUNNING}

\* whatever the pool size, a task is started only when no task submitted before it is
\* still PENDING
StartOrder ==
    \A i \in DOMAIN active_tasks :
        IsStarted(i) => \A j \in Before(i) : active_tasks[j].status # PENDING

\* with one worker, no step leaves two tasks RUNNING (none is RUNNING initially)
OneRunning == max_workers = 1 => Cardinality(RunningNext) <= 1

\* C19 as stated: with one worker tasks are started in submission order, at most one is
\* RUNNING, and tasks become terminal in submission order; with more workers tasks are
\* still started in submission order
C19_Ordering ==
    [][active_tasks' = active_tasks
       \/ /\ StartOrder
          /\ OneRunning
          /\ \A i \in DOMAIN active_tasks :
                (max_workers = 1 /\ BecomesTerminal(i))
                => \A j \in Before(i) : Terminal(j)]_vars

\* C19 as it holds: the same, the terminal order being that of the tasks a worker ends;
\* cancel() makes a PENDING task FAILED at once, whatever was submitted before it
C19_OrderingOfProcessedTasks ==
    [][active_tasks' = active_tasks
       \/ /\ StartOrder
          /\ OneRunning
          /\ \A i \in DOMAIN active_tasks :
                (max_workers = 1 /\ BecomesTerminal(i) /\ cancelled' = cancelled)
                => \A j \in Before(i) : Terminal(j)]_vars

\* two workers, both tasks started, and the one submitted second ended first
C19_Witness ==
    /\ max_workers = 2
    /\ DOMAIN active_tasks = {1, 2}
    /\ active_tasks[1].status = RUNNING
    /\ active_tasks[2].status = COMPLETED
    /\ cancelled = {}

\* ------------------------------------------------------------ TaskManager
\* get_task_manager(): TaskManager() with the default max_workers
tm_max_workers == 2
\* the task types submitted to it: one with a handler, and one _process_task rejects
ManagerTaskTypes == {INFERENCE, "unknown"}
\* asyncio.get_event_loop().time(): a monotonic clock
LoopTime == tm_time .. MaxTime
\* the ages cleanup_completed_tasks is asked to keep
MaxAges == 0 .. MaxTime

\* submit_task(task): t is the loop time read
submit_task(task_type, project_id, t) ==
    /\ tm_next_uuid <= MaxTasks
    /\ tm_next_uuid' = tm_next_uuid + 1
    /\ tm_time' = t
    /\ LET task_id == tm_next_uuid
       IN /\ tm_active_tasks' =
                Put(tm_active_tasks, task_id,
                    [status |-> PENDING, task_type |-> task_type,
                     project_id |-> project_id, created_at |-> t,
                     started_at |-> NoTime, completed_at |-> NoTime,
                     error |-> None, result |-> None])
          /\ tm_queue' = Append(tm_queue, [id |-> task_id, task_type |-> task_type,
                                           project_id |-> project_id])
    /\ UNCHANGED <<tm_workers, tm_shutdown_event>>

\* start_workers, on an empty pool (initialize_task_manager)
tm_start_workers ==
    /\ tm_workers = EmptyBag
    /\ tm_workers' = tm_workers (+) [x \in {NewWorker} |-> tm_max_workers]
    /\ UNCHANGED <<tm_queue, tm_active_tasks, tm_shutdown_event, tm_time, tm_next_uuid>>

tm_InFlight == {ws.task : ws \in {x \in BagToSet(tm_workers) : x.pc = "processing"}}

\* as tm_stop_workers, but without self.shutdown_event.set()
tm_stop_workers_flag_unset(t) ==
    /\ tm_active_tasks' = [i \in DOMAIN tm_active_tasks |->
                              IF i \in tm_InFlight
                              THEN [tm_active_tasks[i] EXCEPT !.completed_at = t]
                              ELSE tm_active_tasks[i]]
    /\ tm_time' = IF tm_InFlight = {} THEN tm_time ELSE t
    /\ tm_workers' = EmptyBag
    /\ UNCHANGED <<tm_queue, tm_shutdown_event, tm_next_uuid>>

\* stop_workers: every worker task is cancelled; a worker suspended in a handler leaves
\* _process_task through its finally block, which stamps completed_at (CancelledError
\* is not an Exception), and ends
tm_stop_workers(t) ==
    /\ tm_shutdown_event' = TRUE
    /\ tm_active_tasks' = [i \in DOMAIN tm_active_tasks |->
                              IF i \in tm_InFlight
                              THEN [tm_active_tasks[i] EXCEPT !.completed_at = t]
                              ELSE tm_active_tasks[i]]
    /\ tm_time' = IF tm_InFlight = {} THEN tm_time ELSE t
    /\ tm_workers' = EmptyBag
    /\ UNCHANGED <<tm_queue, tm_next_uuid>>

tm_WhileTest == IF tm_shutdown_event THEN Exited ELSE Waiting

tm_worker_begin ==
    /\ BagIn(NewWorker, tm_workers)
    /\ tm_workers' = Move(tm_workers, NewWorker, tm_WhileTest)
    /\ UNCHANGED <<tm_queue, tm_active_tasks, tm_shutdown_event, tm_time, tm_next_uuid>>

tm_worker_timeout ==
    /\ BagIn(Waiting, tm_workers)
    /\ tm_queue = <<>>
    /\ tm_workers' = Move(tm_workers, Waiting, tm_WhileTest)
    /\ UNCHANGED <<tm_queue, tm_active_tasks, tm_shutdown_event, tm_time, tm_next_uuid>>

\* a waiting worker gets the head of the queue and runs _process_task up to the await
\* of the handler, or to its end for a task type without one
tm_worker_get(t) ==
    /\ BagIn(Waiting, tm_workers)
    /\ tm_queue # <<>>
    /\ LET task == Head(tm_queue)
           task_id == task.id
       IN /\ tm_queue' = Tail(tm_queue)
          /\ IF task_id \notin DOMAIN tm_active_tasks
             THEN /\ tm_workers' = Move(tm_workers, Waiting, tm_WhileTest)
                  /\ UNCHANGED <<tm_active_tasks, tm_time>>
             ELSE IF task.task_type \notin TaskType
             THEN \E t2 \in t .. MaxTime :
                  /\ tm_active_tasks' =
                        [tm_active_tasks EXCEPT ![task_id].status = FAILED,
                                                ![task_id].started_at = t,
                                                ![task_id].error =
                                                    "Unknown task type: " \o task.task_type,
                                                ![task_id].completed_at = t2]
                  /\ tm_workers' = Move(tm_workers, Waiting, tm_WhileTest)
                  /\ tm_time' = t2
             ELSE /\ tm_active_tasks' =
                        [tm_active_tasks EXCEPT ![task_id].status = RUNNING,
                                                ![task_id].started_at = t]
                  /\ tm_workers' = Move(tm_workers, Waiting, Processing(task_id))
                  /\ tm_time' = t
    /\ UNCHANGED <<tm_shutdown_event, tm_next_uuid>>

\* the awaited handler returns result
tm_handler_returns(task_id, result, t) ==
    /\ BagIn(Processing(task_id), tm_workers)
    /\ tm_time' = t
    /\ tm_active_tasks' = [tm_active_tasks EXCEPT ![task_id].status = COMPLETED,
                                                  ![task_id].result = result,
                                                  ![task_id].completed_at = t]
    /\ tm_workers' = Move(tm_workers, Processing(task_id), tm_WhileTest)
    /\ UNCHANGED <<tm_queue, tm_shutdown_event, tm_next_uuid>>

\* the awaited handler raises an Exception e
tm_handler_raises(task_id, e, t) ==
    /\ BagIn(Processing(task_id), tm_workers)
    /\ tm_time' = t
    /\ tm_active_tasks' = [tm_active_tasks EXCEPT ![task_id].status = FAILED,
                                                  ![task_id].error = e,
                                                  ![task_id].completed_at = t]
    /\ tm_workers' = Move(tm_workers, Processing(task_id), tm_WhileTest)
    /\ UNCHANGED <<tm_queue, tm_shutdown_event, tm_next_uuid>>

\* as tasks_to_remove, but without the test of the status
tasks_to_remove_any_status(max_age_seconds, current_time) ==
    {task_id \in DOMAIN tm_active_tasks :
        /\ tm_active_tasks[task_id].completed_at # NoTime
        /\ current_time - tm_active_tasks[task_id].completed_at > max_age_seconds}

\* the ids cleanup_completed_tasks collects
tasks_to_remove(max_age_seconds, current_time) ==
    {task_id \in DOMAIN tm_active_tasks :
        /\ tm_active_tasks[task_id].status \in {COMPLETED, FAILED}
        /\ tm_active_tasks[task_id].completed_at # NoTime
        /\ current_time - tm_active_tasks[task_id].completed_at > max_age_seconds}

\* cleanup_completed_tasks(max_age_seconds); current_time is the loop time read
cleanup_completed_tasks(max_age_seconds, current_time) ==
    /\ tm_time' = current_time
    /\ tm_active_tasks' =
          [task_id \in DOMAIN tm_active_tasks
                       \ tasks_to_remove(max_age_seconds, current_time)
              |-> tm_active_tasks[task_id]]
    /\ UNCHANGED <<tm_queue, tm_workers, tm_shutdown_event, tm_next_uuid>>

\* as get_task_status, but raising for an id that is not in the ledger, as
\* InMemoryQueue.get_status does
get_task_status_strict(task_id) ==
    IF task_id \in DOMAIN tm_active_tasks
    THEN [raised |-> None, value |-> tm_active_tasks[task_id].status]
    ELSE [raised |-> "ValueError"]

\* get_task_status(task_id): what it returns or raises.  TaskStatus(value) raises
\* ValueError for a string that is not the value of a member.
get_task_status(task_id) ==
    IF task_id \in DOMAIN tm_active_tasks
    THEN IF tm_active_tasks[task_id].status \in TaskStatus
         THEN [raised |-> None, value |-> tm_active_tasks[task_id].status]
         ELSE [raised |-> "ValueError"]
    ELSE [raised |-> None, value |-> PENDING]

\* get_task_info(task_id): self.active_tasks.get(task_id), the entry or None
get_task_info(task_id) ==
    IF task_id \in DOMAIN tm_active_tasks
    THEN [raised |-> None, value |-> Returned("dict", tm_active_tasks[task_id])]
    ELSE [raised |-> None, value |-> ReturnedNone]

\* a call of get_task_status: reads the ledger and answers
tm_get_task_status(task_id) ==
    /\ UNCHANGED manager_vars
    /\ get_task_status(task_id).raised \in {None, "ValueError"}

\* a call of get_task_info: reads the ledger and answers
tm_get_task_info(task_id) ==
    /\ UNCHANGED manager_vars
    /\ get_task_info(task_id).raised = None

ManagerInit ==
    /\ NewTaskManager
    /\ Init /\ max_workers = 1
    /\ NoProjectActivity
    /\ DefaultStorage

ManagerNext ==
    \/ \E ty \in ManagerTaskTypes, p \in Projects, t \in LoopTime :
          submit_task(ty, p, t) /\ UNCHANGED beyond_manager
    \/ tm_start_workers /\ UNCHANGED beyond_manager
    \/ \E t \in LoopTime : tm_stop_workers(t) /\ UNCHANGED beyond_manager
    \/ tm_worker_begin /\ UNCHANGED beyond_manager
    \/ tm_worker_timeout /\ UNCHANGED beyond_manager
    \/ \E t \in LoopTime : tm_worker_get(t) /\ UNCHANGED beyond_manager
    \/ \E i \in TaskIds, r \in HandlerResults, t \in LoopTime :
          tm_handler_returns(i, r, t) /\ UNCHANGED beyond_manager
    \/ \E i \in TaskIds, e \in HandlerErrors, t \in LoopTime :
          tm_handler_raises(i, e, t) /\ UNCHANGED beyond_manager
    \/ \E a \in MaxAges, t \in LoopTime :
          cleanup_completed_tasks(a, t) /\ UNCHANGED beyond_manager
    \/ \E i \in CallerIds : tm_get_task_status(i) /\ UNCHANGED beyond_manager
    \/ \E i \in CallerIds : tm_get_task_info(i) /\ UNCHANGED beyond_manager

ManagerSpec == ManagerInit /\ [][ManagerNext]_all_vars

\* C20: a step that is not a cleanup removes no entry of the ledger; a cleanup removes
\* exactly the entries that are COMPLETED or FAILED with completed_at more than max_age
\* before the time it reads, and leaves every other entry as it was
CleanupContract(max_age, t) ==
    \A i \in DOMAIN tm_active_tasks :
        IF /\ tm_active_tasks[i].status \in {COMPLETED, FAILED}
           /\ t - tm_active_tasks[i].completed_at > max_age
        THEN i \notin DOMAIN tm_active_tasks'
        ELSE i \in DOMAIN tm_active_tasks' /\ tm_active_tasks'[i] = tm_active_tasks[i]
C20_OnlyCleanupRemoves ==
    [][tm_active_tasks' = tm_active_tasks
       \/ /\ \A a \in MaxAges, t \in LoopTime :
                cleanup_completed_tasks(a, t) => CleanupContract(a, t)
          /\ (\E a \in MaxAges, t \in LoopTime : cleanup_completed_tasks(a, t))
             \/ DOMAIN tm_active_tasks \subseteq DOMAIN tm_active_tasks']_manager_vars

\* after a cleanup: one entry is gone, and there remains an entry that a stopped worker
\* left RUNNING with completed_at set, as old as the time allows
C20_Witness ==
    /\ Cardinality(DOMAIN tm_active_tasks) < tm_next_uuid - 1
    /\ \E i \in DOMAIN tm_active_tasks :
          /\ tm_active_tasks[i].status = RUNNING
          /\ tm_active_tasks[i].completed_at = 0
    /\ tm_time = MaxTime

\* ------------------------------------------- a task type without a processor
\* the queue constructed with one worker and with process_task registered for
\* inference only: a polygonize task then has no processor
UnregisteredInit ==
    /\ queue = <<>>
    /\ workers = EmptyBag
    /\ max_workers = 1
    /\ active_tasks = <<>>
    /\ shutdown_event = FALSE
    /\ task_processors = {INFERENCE}
    /\ now = 0
    /\ next_uuid = 1
    /\ invocations = <<>>
    /\ cancelled = {}
    /\ abandoned = <<>>
    /\ NoProjectActivity
    /\ DefaultStorage
    /\ NewTaskManager

UnregisteredSpec == UnregisteredInit /\ [][DispatchNext]_all_vars

endswith(s, suffix) ==
    /\ Len(s) >= Len(suffix)
    /\ SubSeq(s, Len(s) - Len(suffix) + 1, Len(s)) = suffix

Unregistered(i) == active_tasks[i].task_type \notin task_processors

\* C21: a task whose type has no processor and that was not cancelled leaves PENDING
\* only to become FAILED with an error that ends with its task type; the step that
\* fails it leaves the worker pool as it was (the worker is waiting for the next task)
\* and writes no project
C21_UnknownTypeFailsAlone ==
    [][\A i \in DOMAIN active_tasks :
          (/\ Unregistered(i)
           /\ active_tasks[i].status = PENDING
           /\ active_tasks'[i].status # PENDING
           /\ i \notin cancelled')
          => /\ active_tasks'[i].status = FAILED
             /\ endswith(active_tasks'[i].error, active_tasks[i].task_type)
             /\ workers' = workers
             /\ BagIn(Waiting, workers')
             /\ projects' = projects]_all_vars

\* the one worker of the pool has failed an inference task, which left its project
\* RUNNING, then a polygonize task of that project for want of a processor, and waits
\* for the next task; the project is still RUNNING
C21_Witness ==
    /\ max_workers = 1
    /\ BagIn(Waiting, workers)
    /\ \E i, j \in DOMAIN active_tasks :
          /\ i < j
          /\ active_tasks[i].status = FAILED /\ ~Unregistered(i) /\ i \notin cancelled
          /\ active_tasks[j].status = FAILED /\ Unregistered(j) /\ j \notin cancelled
          /\ active_tasks[j].project_id = active_tasks[i].project_id
          /\ projects[active_tasks[j].project_id].status = RUNNING

\* C22: for an id that is not in the ledger get_task_status returns PENDING and
\* get_task_info returns None, neither raising; no call of either changes the ledger,
\* so none adds an entry
C22_UnknownIdReadsPending ==
    /\ [](\A i \in CallerIds :
             i \notin DOMAIN tm_active_tasks
             => /\ get_task_status(i) = [raised |-> None, value |-> PENDING]
                /\ get_task_info(i) = [raised |-> None, value |-> ReturnedNone])
    /\ [][UNCHANGED manager_vars \/
            \A i \in CallerIds :
               (tm_get_task_status(i) \/ tm_get_task_info(i))
               => tm_active_tasks' = tm_active_tasks]_manager_vars

\* the ledger holds a task that is RUNNING and lacks an id: the one is reported
\* RUNNING, the other PENDING and without an entry
C22_Witness ==
    /\ UnknownId \notin DOMAIN tm_active_tasks
    /\ get_task_status(UnknownId).value = PENDING
    /\ get_task_info(UnknownId).value = ReturnedNone
    /\ 1 \in DOMAIN tm_active_tasks
    /\ get_task_status(1).value = RUNNING
    /\ get_task_info(1).value.kind = "dict"

\* C23: the task manager as constructed has no workers, an empty ledger and the
\* shutdown flag unset; start_workers leaves exactly max_workers workers in the list and
\* the flag as it was, unset when the pool is fresh; stop_workers leaves no worker in
\* the list and the flag set; the list never holds another number of workers
C23_PoolLifecycle ==
    /\ tm_workers = EmptyBag /\ tm_active_tasks = <<>> /\ ~tm_shutdown_event
    /\ [](BagCardinality(tm_workers) \in {0, tm_max_workers})
    /\ [][/\ tm_start_workers
             => /\ BagCardinality(tm_workers') = tm_max_workers
                /\ tm_shutdown_event' = tm_shutdown_event
          /\ \A t \in LoopTime :
                tm_stop_workers(t) => tm_workers' = EmptyBag /\ tm_shutdown_event'
         ]_manager_vars

\* stop_workers has returned on a pool that start_workers had filled: a worker of it
\* completed a task
C23_Witness ==
    /\ tm_workers = EmptyBag
    /\ tm_shutdown_event
    /\ \E i \in DOMAIN tm_active_tasks : tm_active_tasks[i].status = COMPLETED

\* C24: the payloads in the queue have distinct ids and none of them has been started,
\* handed to a processor or is held by a worker; no processor is invoked twice for a
\* task; no task is held by two workers; and the entry of a task a worker holds is as
\* that worker left it, RUNNING
C24_SingleConsumer ==
    /\ \A m, n \in DOMAIN queue : m # n => queue[m].id # queue[n].id
    /\ \A n \in DOMAIN queue :
          LET i == queue[n].id
          IN /\ Known(i)
             /\ invocations[i] = 0
             /\ active_tasks[i].started_at = NoStamp
             /\ ~BagIn(Processing(i), workers)
    /\ \A i \in DOMAIN active_tasks :
          /\ invocations[i] <= 1
          /\ CopiesIn(Processing(i), workers) <= 1
          /\ BagIn(Processing(i), workers)
             => invocations[i] = 1 /\ active_tasks[i].status = RUNNING

\* two workers hold two tasks at once, each handed to its processor once
C24_Witness ==
    /\ max_workers = 2
    /\ BagIn(Processing(1), workers) /\ invocations[1] = 1
    /\ BagIn(Processing(2), workers) /\ invocations[2] = 1

\* the changes of status C25 allows
Transitions ==
    {<<PENDING, RUNNING>>, <<RUNNING, COMPLETED>>, <<RUNNING, FAILED>>,
     <<PENDING, FAILED>>}

\* C25: the status of a ledger entry changes only along PENDING -> RUNNING,
\* RUNNING -> COMPLETED, RUNNING -> FAILED and PENDING -> FAILED; a step that takes an
\* entry out of RUNNING is the return or the raise of its processor
C25_StatusTransitions ==
    [][\A i \in DOMAIN active_tasks :
          active_tasks'[i].status # active_tasks[i].status
          => /\ <<active_tasks[i].status, active_tasks'[i].status>> \in Transitions
             /\ active_tasks[i].status = RUNNING
                => \E t \in Clock :
                      \/ \E r \in HandlerResults : processor_returns(i, r, t)
                      \/ \E e \in HandlerErrors : processor_raises(i, e, t)]_vars

\* ------------------------------------- dispatch and the project rows, clock at rest
\* the instants written to the ledger play no part in what dispatch writes to the
\* project rows: here every reading of the clock returns the instant of the last one
StandingClock == {now}

QUEUED == "queued"

\* submit_project_inference_workflow / submit_project_polygonize_workflow: the
\* parameters are stored in the project, which resets its status to QUEUED, and the
\* task is submitted to the queue; nothing awaits in between
submit_project_workflow(task_type, project_id, t) ==
    /\ submit(task_type, project_id, t)
    /\ projects' = [projects EXCEPT ![project_id].status = QUEUED]
    /\ UNCHANGED <<inference_results, completions>>

ProjectNext ==
    \/ \E ty \in TaskType, p \in Projects, t \in StandingClock :
          submit_project_workflow(ty, p, t) /\ UNCHANGED beyond_dispatch
    \/ \E i \in TaskIds, t \in StandingClock : cancel(i, t, TRUE) /\ UNCHANGED beyond_queue
    \/ start_workers /\ UNCHANGED beyond_queue
    \/ \E t \in StandingClock : stop_workers(t) /\ UNCHANGED beyond_queue
    \/ worker_begin /\ UNCHANGED beyond_queue
    \/ worker_timeout /\ UNCHANGED beyond_queue
    \/ \E t \in StandingClock : process_task_begins(t) /\ UNCHANGED beyond_dispatch
    \/ \E i \in TaskIds, r \in AllOutputs, t \in StandingClock :
          process_task_returns(i, r, t) /\ UNCHANGED beyond_dispatch
    \/ \E i \in TaskIds, e \in HandlerErrors, t \in StandingClock :
          process_task_raises(i, e, t) /\ UNCHANGED beyond_dispatch

ProjectSpec == DispatchInit /\ [][ProjectNext]_all_vars

\* the worker that holds no task i before the step and holds it after: process_task
\* has been entered for i and awaits its handler
HandlerInvoked(i) ==
    ~BagIn(Processing(i), workers) /\ BagIn(Processing(i), workers')

\* C26: the step that invokes the handler of a task leaves its project RUNNING;
\* record_task_completion is called at most once per task, only with a result that
\* holds inference_file or polygon_file, by the worker that holds the task and while
\* the ledger still shows it RUNNING; and never for a task whose handler raised
C26_ProjectWritesOrdered ==
    /\ [](\A i \in DOMAIN active_tasks :
             /\ Cardinality(CompletionsOf(i)) <= 1
             /\ \A n \in CompletionsOf(i) :
                   LET rd == result_data(completions[n].result)
                   IN bool(get(rd, "inference_file")) \/ bool(get(rd, "polygon_file"))
             /\ (active_tasks[i].status = FAILED /\ active_tasks[i].error \in HandlerErrors)
                => CompletionsOf(i) = {})
    /\ [][/\ \A i \in DOMAIN active_tasks :
                HandlerInvoked(i)
                => projects'[active_tasks[i].project_id].status = RUNNING
          /\ completions' # completions
             => /\ Len(completions') = Len(completions) + 1
                /\ SubSeq(completions', 1, Len(completions)) = completions
                /\ LET i == completions'[Len(completions')].task_id
                   IN /\ BagIn(Processing(i), workers)
                      /\ active_tasks[i].status = RUNNING
                      /\ active_tasks'[i].status \in {COMPLETED, FAILED}
                      /\ active_tasks'[i].status = COMPLETED
                         => active_tasks'[i].result = completions'[Len(completions')].result
         ]_all_vars

\* one task was completed after its result was recorded, another failed when its
\* handler raised and nothing was recorded for it
C26_Witness ==
    \E i, j \in DOMAIN active_tasks :
        /\ active_tasks[i].status = COMPLETED
        /\ Cardinality(CompletionsOf(i)) = 1
        /\ active_tasks[j].status = FAILED
        /\ active_tasks[j].error \in HandlerErrors
        /\ CompletionsOf(j) = {}

\* record_task_completion has run to its end for task i in this step
Recorded(i) ==
    /\ Len(completions') = Len(completions) + 1
    /\ completions'[Len(completions')].task_id = i
    /\ active_tasks'[i].status = COMPLETED

\* another task of the project of i is held by a worker
OtherInFlight(i) ==
    \E j \in DOMAIN active_tasks \ {i} :
        /\ active_tasks[j].project_id = active_tasks[i].project_id
        /\ active_tasks[j].status = RUNNING
        /\ BagIn(Processing(j), workers)

\* C27: the completion of a task sets its project COMPLETED also while another task of
\* the project is RUNNING, and the start of a task sets its project RUNNING also when
\* the project is COMPLETED
C27_LastWriterWins ==
    [][\A i \in DOMAIN active_tasks :
          /\ (Recorded(i) /\ OtherInFlight(i))
             => projects'[active_tasks[i].project_id].status = COMPLETED
          /\ (HandlerInvoked(i) /\ projects[active_tasks[i].project_id].status = COMPLETED)
             => projects'[active_tasks[i].project_id].status = RUNNING]_all_vars

\* with two workers, a project is COMPLETED by one of its tasks while another task of
\* it is still RUNNING in the other worker
C27_Witness ==
    /\ max_workers = 2
    /\ \E i, j \in DOMAIN active_tasks :
          /\ i # j
          /\ active_tasks[i].project_id = active_tasks[j].project_id
          /\ active_tasks[i].status = COMPLETED
          /\ CompletionsOf(i) # {}
          /\ active_tasks[j].status = RUNNING
          /\ BagIn(Processing(j), workers)
          /\ projects[active_tasks[i].project_id].status = COMPLETED

\* C28: once the shutdown flag is set it stays set; no worker is then waiting for a
\* task or holding one, a worker created later going from created to exited; nothing
\* is taken from the queue; and a PENDING task leaves PENDING only by a cancel that
\* returns True
C28_ShutdownIsFinal ==
    /\ [](shutdown_event
          => \A w \in BagToSet(workers) : w.pc \in {"created", "exited"})
    /\ [][shutdown_event
          => /\ shutdown_event'
             /\ \/ queue' = queue
                \/ /\ Len(queue') = Len(queue) + 1
                   /\ SubSeq(queue', 1, Len(queue)) = queue
             /\ \A i \in DOMAIN active_tasks :
                   (active_tasks[i].status = PENDING /\ active_tasks'[i].status # PENDING)
                   => \E t \in Clock : cancel(i, t, TRUE)]_vars

\* stop_workers was called while a task was RUNNING; a new pool was started and every
\* worker of it has exited, while a task is PENDING in the queue
C28_Witness ==
    /\ shutdown_event
    /\ DOMAIN abandoned # {}
    /\ workers = [x \in {Exited} |-> max_workers]
    /\ Len(queue) = 1
    /\ active_tasks[queue[1].id].status = PENDING

\* a submission for project p has been made in this step
Submitted(p) ==
    /\ next_uuid' = next_uuid + 1
    /\ active_tasks'[next_uuid].project_id = p

\* C29: the step in which the handler of a task raises marks the task FAILED and
\* writes no project; no project is ever FAILED; and the status of a project changes
\* only when a task is submitted for it, when the handler of one of its tasks is
\* invoked or when the completion of one of its tasks is recorded
C29_FailureLeavesProjectRunning ==
    /\ [](\A p \in DOMAIN projects : projects[p].status # FAILED)
    /\ [][/\ \A i \in DOMAIN active_tasks, e \in HandlerErrors :
                (\E t \in Clock : process_task_raises(i, e, t))
                => active_tasks'[i].status = FAILED /\ projects' = projects
          /\ \A p \in DOMAIN projects :
                projects'[p].status # projects[p].status
                => \/ Submitted(p)
                   \/ \E i \in DOMAIN active_tasks :
                         /\ active_tasks[i].project_id = p
                         /\ HandlerInvoked(i) \/ Recorded(i)]_all_vars

\* the handler of the only task of a project has raised: the task is FAILED, the
\* worker waits for the next task, and the project is still RUNNING
C29_Witness ==
    /\ DOMAIN active_tasks = {1}
    /\ active_tasks[1].status = FAILED
    /\ active_tasks[1].error \in HandlerErrors
    /\ BagIn(Waiting, workers)
    /\ projects[active_tasks[1].project_id].status = RUNNING

\* C30: an id for which get_task_status reports RUNNING, COMPLETED or FAILED is not
\* reported PENDING after any step
C30_ReportedStatusNeverBackwards ==
    [][\A i \in TaskIds :
          get_task_status(i).value # PENDING
          => get_task_status(i)'.value # PENDING]_manager_vars
====
